---- MODULE Spec2Model ----
(***************************************************************************)
(* A state-machine model of package it (github.com/PFCM/it): the lazy      *)
(* sequence operators of it.go and the permutation generator of perm.go.   *)
(* One run of the model is one consumption of one iterator: Init picks the *)
(* operator and its arguments, the actions are the steps of the iterator   *)
(* function, and the consumer's callback answers each delivery with        *)
(* "continue" or "stop".  Slice indices are 0-based as in the source; the  *)
(* TLA+ sequences that hold slices are 1-based, hence the "+ 1".           *)
(***************************************************************************)
EXTENDS Integers, Sequences, FiniteSets, TLC

VARIABLES
    op,         \* the operator whose iterator is being consumed
    pc,         \* position in the iterator function
    out,        \* the deliveries made so far (contents at the time of the call)
    stopped,    \* the consumer's callback has returned false
    stopAt,     \* number of deliveries made when it returned false (0: never)
    input,      \* Perm: the slice as handed to Perm
    sorts,      \* Perm: the consumer sorts every delivered slice in place
    data,       \* Perm: the working slice (the caller's slice, shuffled in place)
    bufs,       \* Perm: the output buffers allocated so far
    retained,   \* Perm: the buffer each delivered slice is a view of
    c,          \* Perm: the counter array
    i,          \* Perm: the scan index; Take: the count of deliveries
    swaps,      \* Perm: number of swaps performed on data
    as,         \* Zip: the elements of the sequence as
    bs,         \* Zip: the elements of the sequence bs
    it,         \* the elements of the upstream sequence of a one-input operator
    its,        \* Concat: the sub-sequences, in order
    n,          \* Batch, Limit, Take: the count argument
    pred,       \* TakeWhile, Filter: the predicate p
    val,        \* Const: the value a
    pulled,     \* elements the range loop has demanded from bs / it / its
    cur,        \* the loop variable of the range loop
    pulledA,    \* Zip: elements demanded from as through nextA
    curA,       \* Zip: the element nextA returned
    stopACalls, \* Zip: number of times stopA has run
    endedBy,    \* Zip: which return statement ended the run
    pulledIn,   \* Concat: elements demanded from the current sub-sequence
    j,          \* Enumerate: the index counter
    batchLen,   \* Batch: len(batch)
    pCalls,     \* TakeWhile, Filter: number of evaluations of p
    result,     \* All, CollectErr: the value(s) returned
    values,     \* CollectErr: the values collected so far
    recPc,      \* permRec: position of the run
    recData,    \* permRec: the slice being permuted (data, s)
    recRet,     \* permRec: the output buffer ret
    recStack,   \* permRec: the active calls of perm, innermost last
    recK,       \* permRec: the argument k of the call being entered
    recVal,     \* permRec: the value the last call of perm returned
    recOut,     \* permRec: the deliveries, copied as they are made
    recSwaps    \* permRec: number of exchanges made

cfgVars == <<op, input, sorts, as, bs, it, its, n, pred, val>>
ctlVars == <<pc, out, stopped, stopAt>>
permVars == <<data, bufs, retained, c, i, swaps>>
upVars == <<pulled, cur>>
zipVars == <<pulledA, curA, stopACalls, endedBy>>
locVars == <<pulledIn, j, batchLen>>
retVars == <<pCalls, result, values>>
recVars == <<recPc, recData, recRet, recStack, recK, recVal, recOut, recSwaps>>
vars == <<cfgVars, ctlVars, permVars, upVars, zipVars, locVars, retVars,
          recVars>>

(***************************************************************************)
(* Bounds of the model.                                                    *)
(***************************************************************************)
MaxPerm == 4

MaxLen == 3

MaxSubs == 3

MaxConst == 3

Vals == {1, 2}

(***************************************************************************)
(* Helpers.                                                                *)
(***************************************************************************)
Min(a, b) == IF a < b THEN a ELSE b

RECURSIVE Fact(_)
Fact(k) == IF k <= 1 THEN 1 ELSE k * Fact(k - 1)

Zeros(k) == [x \in 1..k |-> 0]

\* data[i] = i for i in range size
Iota(k) == [x \in 1..k |-> x - 1]

\* sort.Ints, as the consumer of TestPerms applies it to a delivered slice
RECURSIVE Insert(_, _)
Insert(s, v) ==
    IF s = <<>> THEN <<v>>
    ELSE IF v <= Head(s) THEN <<v>> \o s
    ELSE <<Head(s)>> \o Insert(Tail(s), v)

RECURSIVE SortInts(_)
SortInts(s) == IF s = <<>> THEN <<>> ELSE Insert(SortInts(Tail(s)), Head(s))

\* what the consumer's callback leaves in the slice it was handed
Consumer(s) == IF sorts THEN SortInts(s) ELSE s

(***************************************************************************)
(* The consumer's answer to a delivery.                                    *)
(***************************************************************************)
Deliver(v, cont) ==
    /\ out' = Append(out, v)
    /\ stopped' = (stopped \/ ~cont)
    /\ stopAt' = IF cont \/ stopped THEN stopAt ELSE Len(out) + 1

(***************************************************************************)
(* Perm (permIter).                                                        *)
(***************************************************************************)
\* data[a], data[b] = data[b], data[a]
Swap(s, a, b) == [s EXCEPT ![a + 1] = s[b + 1], ![b + 1] = s[a + 1]]

PermSwapParity(d, cc, k) ==
    IF k % 2 = 1 THEN Swap(d, 0, k) ELSE Swap(d, cc[k + 1], k)

\* the swap of one scan step: positions 0 and i for even i, c[i] and i for odd i
PermSwap(d, cc, k) ==
    IF k % 2 = 0 THEN Swap(d, 0, k) ELSE Swap(d, cc[k + 1], k)

PermLoopCondShort(k, d) == k < Len(d) - 1

PermLoopCondInclusive(k, d) == k <= Len(d)

\* for i := 0; i < len(data);
PermLoopCond(k, d) == k < Len(d)

PermTestInclusive(cc, k) == cc[k + 1] <= k

\* if c[i] < i
PermTest(cc, k) == cc[k + 1] < k

RetSlotFresh(b) == Len(b) + 1

\* the buffer a delivery is written to and is a view of: ret, allocated once
RetSlot(b) == 1

CopyIntoSkip(b, slot, d) ==
    IF slot <= Len(b) THEN b ELSE Append(b, d)

\* copy(ret, data)
CopyInto(b, slot, d) ==
    IF slot <= Len(b) THEN [b EXCEPT ![slot] = d] ELSE Append(b, d)

PermAfterYieldIgnore(cont) == "loop"

\* if !yieldCopy() { return }
PermAfterYield(cont) == IF cont THEN "loop" ELSE "done"

\* yieldCopy: copy(ret, data); return yield(ret)
YieldCopy(cont) ==
    LET slot == RetSlot(bufs)
        filled == CopyInto(bufs, slot, data)
    IN  /\ Deliver(filled[slot], cont)
        /\ retained' = Append(retained, slot)
        /\ bufs' = [filled EXCEPT ![slot] = Consumer(filled[slot])]

\* len(data) == 0: return; otherwise allocate ret and c
PermStart ==
    /\ op = "Perm" /\ pc = "start"
    /\ IF Len(data) = 0
       THEN /\ pc' = "done"
            /\ UNCHANGED <<bufs, c>>
       ELSE /\ pc' = "first"
            /\ bufs' = <<Zeros(Len(data))>>
            /\ c' = Zeros(Len(data))
    /\ UNCHANGED <<cfgVars, out, stopped, stopAt, data, retained, i, swaps>>
    /\ UNCHANGED <<upVars, zipVars, locVars>>
    /\ UNCHANGED retVars
    /\ UNCHANGED recVars

\* the first delivery: the input ordering unchanged
PermFirst ==
    /\ op = "Perm" /\ pc = "first"
    /\ \E cont \in BOOLEAN :
          /\ YieldCopy(cont)
          /\ pc' = PermAfterYield(cont)
    /\ i' = 0
    /\ UNCHANGED <<cfgVars, data, c, swaps, upVars, zipVars, locVars>>
    /\ UNCHANGED retVars
    /\ UNCHANGED recVars

\* one pass of the scan loop up to its call of yieldCopy
PermScan ==
    /\ op = "Perm" /\ pc = "loop"
    /\ IF ~PermLoopCond(i, data)
       THEN /\ pc' = "done"
            /\ UNCHANGED <<data, c, i, swaps>>
       ELSE IF i >= Len(c) \/ i >= Len(data)
       THEN /\ pc' = "panic"
            /\ UNCHANGED <<data, c, i, swaps>>
       ELSE IF PermTest(c, i)
       THEN /\ data' = PermSwap(data, c, i)
            /\ swaps' = swaps + 1
            /\ pc' = "yield"
            /\ UNCHANGED <<c, i>>
       ELSE /\ c' = [c EXCEPT ![i + 1] = 0]
            /\ i' = i + 1
            /\ pc' = "loop"
            /\ UNCHANGED <<data, swaps>>
    /\ UNCHANGED <<cfgVars, out, stopped, stopAt, bufs, retained>>
    /\ UNCHANGED <<upVars, zipVars, locVars>>
    /\ UNCHANGED retVars
    /\ UNCHANGED recVars

\* the delivery after a swap, then c[i] += 1; i = 1
PermYield ==
    /\ op = "Perm" /\ pc = "yield"
    /\ \E cont \in BOOLEAN :
          /\ YieldCopy(cont)
          /\ pc' = PermAfterYield(cont)
          /\ IF cont
             THEN /\ c' = [c EXCEPT ![i + 1] = c[i + 1] + 1]
                  /\ i' = 1
             ELSE UNCHANGED <<c, i>>
    /\ UNCHANGED <<cfgVars, data, swaps, upVars, zipVars, locVars>>
    /\ UNCHANGED retVars
    /\ UNCHANGED recVars

(***************************************************************************)
(* permRec, run over the same input and against the same consumer once     *)
(* the run of permIter is over (TestPerms runs the two side by side).      *)
(***************************************************************************)
\* what the consumer answers to the delivery after m others: it stops
\* where it stopped the run of permIter
ReplayCont(m) == ~(stopped /\ stopAt = m + 1)

RecSwapParity(d, kk, ix) ==
    IF kk % 2 = 1 THEN Swap(d, ix, kk - 1) ELSE Swap(d, 0, kk - 1)

\* s[i], s[k-1] = s[k-1], s[i] for even k; s[0], s[k-1] = s[k-1], s[0]
\* for odd k
RecSwap(d, kk, ix) ==
    IF kk % 2 = 0 THEN Swap(d, ix, kk - 1) ELSE Swap(d, 0, kk - 1)

\* switch len(data); ret := make(S, len(data)); perm(len(data), data)
RecStart ==
    /\ op = "Perm" /\ pc = "done" /\ recPc = "start"
    /\ IF Len(recData) = 0
       THEN /\ recPc' = "done"
            /\ UNCHANGED <<recRet, recK>>
       ELSE IF Len(recData) = 1
       THEN /\ recPc' = "single"
            /\ UNCHANGED <<recRet, recK>>
       ELSE /\ recPc' = "call"
            /\ recRet' = Zeros(Len(recData))
            /\ recK' = Len(recData)
    /\ UNCHANGED <<recData, recStack, recVal, recOut, recSwaps>>
    /\ UNCHANGED <<cfgVars, ctlVars, permVars, upVars, zipVars, locVars>>
    /\ UNCHANGED retVars

\* case 1: yield(data); return -- the input slice itself is delivered
RecSingle ==
    /\ op = "Perm" /\ recPc = "single"
    /\ recOut' = Append(recOut, recData)
    /\ recData' = Consumer(recData)
    /\ recVal' = ReplayCont(Len(recOut))
    /\ recPc' = "done"
    /\ UNCHANGED <<recRet, recStack, recK, recSwaps>>
    /\ UNCHANGED <<cfgVars, ctlVars, permVars, upVars, zipVars, locVars>>
    /\ UNCHANGED retVars

\* entry of perm(k, s): if k == 1, deliver; otherwise call perm(k-1, s)
RecCall ==
    /\ op = "Perm" /\ recPc = "call"
    /\ IF recK = 1
       THEN /\ recPc' = "yield"
            /\ UNCHANGED <<recStack, recK>>
       ELSE /\ recStack' = Append(recStack, [k |-> recK, i |-> -1])
            /\ recK' = recK - 1
            /\ recPc' = "call"
    /\ UNCHANGED <<recData, recRet, recVal, recOut, recSwaps>>
    /\ UNCHANGED <<cfgVars, ctlVars, permVars, upVars, zipVars, locVars>>
    /\ UNCHANGED retVars

\* copy(ret, s); return yield(ret)
RecYield ==
    /\ op = "Perm" /\ recPc = "yield"
    /\ recOut' = Append(recOut, recData)
    /\ recRet' = Consumer(recData)
    /\ recVal' = ReplayCont(Len(recOut))
    /\ recPc' = "return"
    /\ UNCHANGED <<recData, recStack, recK, recSwaps>>
    /\ UNCHANGED <<cfgVars, ctlVars, permVars, upVars, zipVars, locVars>>
    /\ UNCHANGED retVars

\* a call of perm(k-1, s) has returned to its caller: return false if it
\* did; otherwise the next pass of "for i := range k - 1" exchanges and calls
\* again, and the caller returns true after the last pass
RecReturn ==
    /\ op = "Perm" /\ recPc = "return"
    /\ IF recStack = <<>>
       THEN /\ recPc' = "done"
            /\ UNCHANGED <<recData, recStack, recK, recVal, recSwaps>>
       ELSE LET top == recStack[Len(recStack)]
                rest == SubSeq(recStack, 1, Len(recStack) - 1)
            IN  IF ~recVal
                THEN /\ recStack' = rest
                     /\ recVal' = FALSE
                     /\ recPc' = "return"
                     /\ UNCHANGED <<recData, recK, recSwaps>>
                ELSE IF top.i + 1 < top.k - 1
                THEN /\ recData' = RecSwap(recData, top.k, top.i + 1)
                     /\ recSwaps' = recSwaps + 1
                     /\ recStack' = Append(rest, [top EXCEPT !.i = top.i + 1])
                     /\ recK' = top.k - 1
                     /\ recPc' = "call"
                     /\ UNCHANGED recVal
                ELSE /\ recStack' = rest
                     /\ recVal' = TRUE
                     /\ recPc' = "return"
                     /\ UNCHANGED <<recData, recK, recSwaps>>
    /\ UNCHANGED <<recRet, recOut>>
    /\ UNCHANGED <<cfgVars, ctlVars, permVars, upVars, zipVars, locVars>>
    /\ UNCHANGED retVars

(***************************************************************************)
(* The upstream of an operator: a finite sequence driven by a range loop   *)
(* (slices.Values in the tests).  Each pass of "for x := range s" demands  *)
(* the next element of s; when s has none left the loop ends.              *)
(***************************************************************************)
Range(s, body, after) ==
    IF pulled < Len(s)
    THEN /\ pulled' = pulled + 1
         /\ cur' = s[pulled + 1]
         /\ pc' = body
    ELSE /\ pc' = after
         /\ UNCHANGED <<pulled, cur>>

(***************************************************************************)
(* Zip.                                                                    *)
(***************************************************************************)
ZipExitNoDefer(reason) == IF reason = "consumer" THEN "done" ELSE "ret"

\* defer stopA(): every return of the iterator function runs stopA
ZipExit(reason) == "ret"

ZipGoesOnAlways(ok) == TRUE

\* if !ok { return }
ZipGoesOn(ok) == ok

\* nextA, stopA := iter.Pull(as); defer stopA()
ZipStart ==
    /\ op = "Zip" /\ pc = "start"
    /\ pc' = "loop"
    /\ UNCHANGED <<cfgVars, out, stopped, stopAt, permVars, upVars, zipVars, locVars>>
    /\ UNCHANGED retVars
    /\ UNCHANGED recVars

\* for b := range bs
ZipRange ==
    /\ op = "Zip" /\ pc = "loop"
    /\ Range(bs, "next", ZipExit("B"))
    /\ endedBy' = IF pulled < Len(bs) THEN endedBy ELSE "B"
    /\ UNCHANGED <<cfgVars, out, stopped, stopAt, permVars, locVars>>
    /\ UNCHANGED <<pulledA, curA, stopACalls>>
    /\ UNCHANGED retVars
    /\ UNCHANGED recVars

\* a, ok := nextA(); if !ok { return }
ZipNext ==
    /\ op = "Zip" /\ pc = "next"
    /\ LET ok == pulledA < Len(as)
       IN  /\ pulledA' = IF ok THEN pulledA + 1 ELSE pulledA
           /\ curA' = IF ok THEN as[pulledA + 1] ELSE 0
           /\ pc' = IF ZipGoesOn(ok) THEN "yield" ELSE ZipExit("A")
           /\ endedBy' = IF ZipGoesOn(ok) THEN endedBy ELSE "A"
    /\ UNCHANGED <<cfgVars, out, stopped, stopAt, permVars, upVars, locVars>>
    /\ UNCHANGED stopACalls
    /\ UNCHANGED retVars
    /\ UNCHANGED recVars

\* if !yield(a, b) { return }
ZipYield ==
    /\ op = "Zip" /\ pc = "yield"
    /\ \E cont \in BOOLEAN :
          /\ Deliver(<<curA, cur>>, cont)
          /\ pc' = IF cont THEN "loop" ELSE ZipExit("consumer")
          /\ endedBy' = IF cont THEN endedBy ELSE "consumer"
    /\ UNCHANGED <<cfgVars, permVars, upVars, locVars>>
    /\ UNCHANGED <<pulledA, curA, stopACalls>>
    /\ UNCHANGED retVars
    /\ UNCHANGED recVars

\* the deferred stopA() on the way out
ZipReturn ==
    /\ op = "Zip" /\ pc = "ret"
    /\ stopACalls' = stopACalls + 1
    /\ pc' = "done"
    /\ UNCHANGED <<cfgVars, out, stopped, stopAt, permVars, upVars, locVars>>
    /\ UNCHANGED <<pulledA, curA, endedBy>>
    /\ UNCHANGED retVars
    /\ UNCHANGED recVars

(***************************************************************************)
(* Take.                                                                   *)
(***************************************************************************)
TakeDoneLate(k, m) == k > m

\* if i >= n
TakeDone(k, m) == k >= m

\* for a := range it
TakeRange ==
    /\ op = "Take" /\ pc \in {"start", "loop"}
    /\ Range(it, "body", "done")
    /\ UNCHANGED <<cfgVars, out, stopped, stopAt, permVars, zipVars, locVars>>
    /\ UNCHANGED retVars
    /\ UNCHANGED recVars

\* if i >= n { return }; if !yield(a) { return }; i++
TakeBody ==
    /\ op = "Take" /\ pc = "body"
    /\ IF TakeDone(i, n)
       THEN /\ pc' = "done"
            /\ UNCHANGED <<out, stopped, stopAt, i>>
       ELSE \E cont \in BOOLEAN :
               /\ Deliver(cur, cont)
               /\ pc' = IF cont THEN "loop" ELSE "done"
               /\ i' = IF cont THEN i + 1 ELSE i
    /\ UNCHANGED <<cfgVars, data, bufs, retained, c, swaps, upVars, zipVars, locVars>>
    /\ UNCHANGED retVars
    /\ UNCHANGED recVars

(***************************************************************************)
(* Enumerate.                                                              *)
(***************************************************************************)
\* j := 0; for i := range it
EnumerateRange ==
    /\ op = "Enumerate" /\ pc \in {"start", "loop"}
    /\ Range(it, "body", "done")
    /\ UNCHANGED <<cfgVars, out, stopped, stopAt, permVars, zipVars, locVars>>
    /\ UNCHANGED retVars
    /\ UNCHANGED recVars

\* if !yield(j, i) { return }; j++
EnumerateBody ==
    /\ op = "Enumerate" /\ pc = "body"
    /\ \E cont \in BOOLEAN :
          /\ Deliver(<<j, cur>>, cont)
          /\ pc' = IF cont THEN "loop" ELSE "done"
          /\ j' = IF cont THEN j + 1 ELSE j
    /\ UNCHANGED <<cfgVars, permVars, upVars, zipVars, pulledIn, batchLen>>
    /\ UNCHANGED retVars
    /\ UNCHANGED recVars

(***************************************************************************)
(* Concat (Chain is Concat over the list of its arguments).                *)
(***************************************************************************)
ConcatInnerEndStop == "done"

\* the inner range loop has run out: on to the next pass of the outer loop
ConcatInnerEnd == "loop"

ConcatAfterYieldBreak(cont) == IF cont THEN "inner" ELSE "loop"

\* if !yield(a) { return }
ConcatAfterYield(cont) == IF cont THEN "inner" ELSE "done"

\* for it := range its
ConcatRange ==
    /\ op = "Concat" /\ pc \in {"start", "loop"}
    /\ IF pulled < Len(its)
       THEN /\ pulled' = pulled + 1
            /\ pulledIn' = 0
            /\ pc' = "inner"
       ELSE /\ pc' = "done"
            /\ UNCHANGED <<pulled, pulledIn>>
    /\ UNCHANGED <<cfgVars, out, stopped, stopAt, permVars, zipVars, cur, j, batchLen>>
    /\ UNCHANGED retVars
    /\ UNCHANGED recVars

\* for a := range it
ConcatInner ==
    /\ op = "Concat" /\ pc = "inner"
    /\ IF pulledIn < Len(its[pulled])
       THEN /\ pulledIn' = pulledIn + 1
            /\ cur' = its[pulled][pulledIn + 1]
            /\ pc' = "body"
       ELSE /\ pc' = ConcatInnerEnd
            /\ UNCHANGED <<pulledIn, cur>>
    /\ UNCHANGED <<cfgVars, out, stopped, stopAt, permVars, zipVars, pulled, j, batchLen>>
    /\ UNCHANGED retVars
    /\ UNCHANGED recVars

\* if !yield(a) { return }
ConcatBody ==
    /\ op = "Concat" /\ pc = "body"
    /\ \E cont \in BOOLEAN :
          /\ Deliver(cur, cont)
          /\ pc' = ConcatAfterYield(cont)
    /\ UNCHANGED <<cfgVars, permVars, upVars, zipVars, locVars>>
    /\ UNCHANGED retVars
    /\ UNCHANGED recVars

(***************************************************************************)
(* Batch.  The last of bufs is the array behind batch, batchLen is        *)
(* len(batch).                                                             *)
(***************************************************************************)
BatchAfterYieldBreak(cont) == IF cont THEN "loop" ELSE "tail"

\* if !yield(batch) { return }
BatchAfterYield(cont) == IF cont THEN "loop" ELSE "done"

BatchHasTailNever(len) == FALSE

\* if len(batch) > 0
BatchHasTail(len) == len > 0

BatchResetFresh(b) == Append(b, Zeros(n))

\* batch = batch[:0]: the same array is filled again
BatchReset(b) == b

\* if n == 0 { return }; batch := make([]A, 0, n)
BatchStart ==
    /\ op = "Batch" /\ pc = "start"
    /\ IF n = 0
       THEN pc' = "done" /\ UNCHANGED bufs
       ELSE IF n < 0
       THEN pc' = "panic" /\ UNCHANGED bufs
       ELSE pc' = "loop" /\ bufs' = <<Zeros(n)>>
    /\ UNCHANGED <<cfgVars, out, stopped, stopAt, data, retained, c, i, swaps>>
    /\ UNCHANGED <<upVars, zipVars, locVars>>
    /\ UNCHANGED retVars
    /\ UNCHANGED recVars

\* for a := range i
BatchRange ==
    /\ op = "Batch" /\ pc = "loop"
    /\ Range(it, "body", "tail")
    /\ UNCHANGED <<cfgVars, out, stopped, stopAt, permVars, zipVars, locVars>>
    /\ UNCHANGED retVars
    /\ UNCHANGED recVars

\* batch = append(batch, a); a full batch is delivered and then emptied
BatchBody ==
    /\ op = "Batch" /\ pc = "body"
    /\ LET slot == Len(bufs)
           arr == [bufs[slot] EXCEPT ![batchLen + 1] = cur]
           filled == [bufs EXCEPT ![slot] = arr]
           len == batchLen + 1
       IN  IF len = n
           THEN \E cont \in BOOLEAN :
                   /\ Deliver(SubSeq(arr, 1, len), cont)
                   /\ retained' = Append(retained, [slot |-> slot, len |-> len])
                   /\ pc' = BatchAfterYield(cont)
                   /\ batchLen' = IF cont THEN 0 ELSE len
                   /\ bufs' = IF cont THEN BatchReset(filled) ELSE filled
           ELSE /\ bufs' = filled
                /\ batchLen' = len
                /\ pc' = "loop"
                /\ UNCHANGED <<out, stopped, stopAt, retained>>
    /\ UNCHANGED <<cfgVars, data, c, i, swaps, upVars, zipVars, pulledIn, j>>
    /\ UNCHANGED retVars
    /\ UNCHANGED recVars

\* if len(batch) > 0 { yield(batch) }
BatchTail ==
    /\ op = "Batch" /\ pc = "tail"
    /\ IF BatchHasTail(batchLen)
       THEN \E cont \in BOOLEAN :
               /\ Deliver(SubSeq(bufs[Len(bufs)], 1, batchLen), cont)
               /\ retained' =
                     Append(retained, [slot |-> Len(bufs), len |-> batchLen])
       ELSE UNCHANGED <<out, stopped, stopAt, retained>>
    /\ pc' = "done"
    /\ UNCHANGED <<cfgVars, data, bufs, c, i, swaps, upVars, zipVars, locVars>>
    /\ UNCHANGED retVars
    /\ UNCHANGED recVars

(***************************************************************************)
(* Limit.  It ranges over Enumerate(i): its loop index is Enumerate's j.   *)
(***************************************************************************)
\* if n == 0 { return }
LimitStart ==
    /\ op = "Limit" /\ pc = "start"
    /\ pc' = IF n = 0 THEN "done" ELSE "loop"
    /\ UNCHANGED <<cfgVars, out, stopped, stopAt, permVars, upVars, zipVars, locVars>>
    /\ UNCHANGED retVars
    /\ UNCHANGED recVars

\* for i, a := range Enumerate(i)
LimitRange ==
    /\ op = "Limit" /\ pc = "loop"
    /\ Range(it, "body", "done")
    /\ UNCHANGED <<cfgVars, out, stopped, stopAt, permVars, zipVars, locVars>>
    /\ UNCHANGED retVars
    /\ UNCHANGED recVars

\* if !yield(a) { return }; if i == n-1 { return }
LimitBody ==
    /\ op = "Limit" /\ pc = "body"
    /\ \E cont \in BOOLEAN :
          /\ Deliver(cur, cont)
          /\ IF ~cont \/ j = n - 1
             THEN pc' = "done" /\ UNCHANGED j
             ELSE pc' = "loop" /\ j' = j + 1
    /\ UNCHANGED <<cfgVars, permVars, upVars, zipVars, pulledIn, batchLen>>
    /\ UNCHANGED retVars
    /\ UNCHANGED recVars

(***************************************************************************)
(* Map, Map1x2, Map2x1, Map2x2, with the functions the tests pass.         *)
(***************************************************************************)
\* strconv.Itoa
Itoa(x) == ToString(x)

\* func(x int) (int, string) { return x * 2, strconv.Itoa(x) }
Double(x) == <<x * 2, Itoa(x)>>

\* func(i int, _ string) int { return i }
First(x, y) == x

\* func(i int, s string) (string, int) { return s, i }
Flip(x, y) == <<y, x>>

\* the paired upstream: yield(i, strconv.Itoa(i))
Pairs(s) == [k \in DOMAIN s |-> <<s[k], Itoa(s[k])>>]

\* for a := range as
MapRange ==
    /\ op = "Map" /\ pc \in {"start", "loop"}
    /\ Range(it, "body", "done")
    /\ UNCHANGED <<cfgVars, out, stopped, stopAt, permVars, zipVars, locVars>>
    /\ UNCHANGED retVars
    /\ UNCHANGED recVars

\* if !yield(f(a)) { return }
MapBody ==
    /\ op = "Map" /\ pc = "body"
    /\ \E cont \in BOOLEAN :
          /\ Deliver(Itoa(cur), cont)
          /\ pc' = IF cont THEN "loop" ELSE "done"
    /\ UNCHANGED <<cfgVars, permVars, upVars, zipVars, locVars>>
    /\ UNCHANGED retVars
    /\ UNCHANGED recVars

\* for a := range as
Map1x2Range ==
    /\ op = "Map1x2" /\ pc \in {"start", "loop"}
    /\ Range(it, "body", "done")
    /\ UNCHANGED <<cfgVars, out, stopped, stopAt, permVars, zipVars, locVars>>
    /\ UNCHANGED retVars
    /\ UNCHANGED recVars

\* if !yield(f(a)) { return }
Map1x2Body ==
    /\ op = "Map1x2" /\ pc = "body"
    /\ \E cont \in BOOLEAN :
          /\ Deliver(Double(cur), cont)
          /\ pc' = IF cont THEN "loop" ELSE "done"
    /\ UNCHANGED <<cfgVars, permVars, upVars, zipVars, locVars>>
    /\ UNCHANGED retVars
    /\ UNCHANGED recVars

\* for a, b := range abs
Map2x1Range ==
    /\ op = "Map2x1" /\ pc \in {"start", "loop"}
    /\ Range(it, "body", "done")
    /\ UNCHANGED <<cfgVars, out, stopped, stopAt, permVars, zipVars, locVars>>
    /\ UNCHANGED retVars
    /\ UNCHANGED recVars

\* if !yield(f(a, b)) { return }
Map2x1Body ==
    /\ op = "Map2x1" /\ pc = "body"
    /\ \E cont \in BOOLEAN :
          /\ Deliver(First(cur[1], cur[2]), cont)
          /\ pc' = IF cont THEN "loop" ELSE "done"
    /\ UNCHANGED <<cfgVars, permVars, upVars, zipVars, locVars>>
    /\ UNCHANGED retVars
    /\ UNCHANGED recVars

\* for a, b := range abs
Map2x2Range ==
    /\ op = "Map2x2" /\ pc \in {"start", "loop"}
    /\ Range(it, "body", "done")
    /\ UNCHANGED <<cfgVars, out, stopped, stopAt, permVars, zipVars, locVars>>
    /\ UNCHANGED retVars
    /\ UNCHANGED recVars

\* if !yield(f(a, b)) { return }
Map2x2Body ==
    /\ op = "Map2x2" /\ pc = "body"
    /\ \E cont \in BOOLEAN :
          /\ Deliver(Flip(cur[1], cur[2]), cont)
          /\ pc' = IF cont THEN "loop" ELSE "done"
    /\ UNCHANGED <<cfgVars, permVars, upVars, zipVars, locVars>>
    /\ UNCHANGED retVars
    /\ UNCHANGED recVars

(***************************************************************************)
(* Const.  The sequence is infinite: the consumer of the model declines at *)
(* its MaxConst-th delivery at the latest.                                 *)
(***************************************************************************)
ConstAfterYieldForever(cont) == "loop"

\* for yield(a) { }
ConstAfterYield(cont) == IF cont THEN "loop" ELSE "done"

ConstYield ==
    /\ op = "Const" /\ pc \in {"start", "loop"}
    /\ Len(out) < MaxConst
    /\ \E cont \in (IF Len(out) + 1 < MaxConst THEN BOOLEAN ELSE {FALSE}) :
          /\ Deliver(val, cont)
          /\ pc' = ConstAfterYield(cont)
    /\ UNCHANGED <<cfgVars, permVars, upVars, zipVars, locVars>>
    /\ UNCHANGED retVars
    /\ UNCHANGED recVars

(***************************************************************************)
(* TakeWhile and Filter, with the predicates the tests pass.               *)
(***************************************************************************)
Preds == {"all", ">4", "odd"}

\* func(int) bool { return true }, i > 4, i%2 == 1
P(name, x) ==
    CASE name = "all" -> TRUE
      [] name = ">4" -> x > 4
      [] name = "odd" -> x % 2 = 1

TakeWhileOnRejectContinue == "loop"

\* if !p(a) { return }
TakeWhileOnReject == "done"

\* for a := range it
TakeWhileRange ==
    /\ op = "TakeWhile" /\ pc \in {"start", "loop"}
    /\ Range(it, "body", "done")
    /\ UNCHANGED <<cfgVars, out, stopped, stopAt, permVars, zipVars, locVars>>
    /\ UNCHANGED retVars
    /\ UNCHANGED recVars

\* if !p(a) { return }; if !yield(a) { return }
TakeWhileBody ==
    /\ op = "TakeWhile" /\ pc = "body"
    /\ IF ~P(pred, cur)
       THEN /\ pc' = TakeWhileOnReject
            /\ UNCHANGED <<out, stopped, stopAt>>
       ELSE \E cont \in BOOLEAN :
               /\ Deliver(cur, cont)
               /\ pc' = IF cont THEN "loop" ELSE "done"
    /\ pCalls' = pCalls + 1
    /\ UNCHANGED <<cfgVars, permVars, upVars, zipVars, locVars, result, values>>
    /\ UNCHANGED recVars

FilterOnRejectReturn == "done"

\* if !p(a) { continue }
FilterOnReject == "loop"

\* for a := range it
FilterRange ==
    /\ op = "Filter" /\ pc \in {"start", "loop"}
    /\ Range(it, "body", "done")
    /\ UNCHANGED <<cfgVars, out, stopped, stopAt, permVars, zipVars, locVars>>
    /\ UNCHANGED retVars
    /\ UNCHANGED recVars

\* if !p(a) { continue }; if !yield(a) { return }
FilterBody ==
    /\ op = "Filter" /\ pc = "body"
    /\ IF ~P(pred, cur)
       THEN /\ pc' = FilterOnReject
            /\ UNCHANGED <<out, stopped, stopAt>>
       ELSE \E cont \in BOOLEAN :
               /\ Deliver(cur, cont)
               /\ pc' = IF cont THEN "loop" ELSE "done"
    /\ pCalls' = pCalls + 1
    /\ UNCHANGED <<cfgVars, permVars, upVars, zipVars, locVars, result, values>>
    /\ UNCHANGED recVars

(***************************************************************************)
(* Initial states: one per operator and choice of arguments.               *)
(***************************************************************************)
PermInputs == {Iota(k) : k \in 0..MaxPerm} \cup [1..3 -> 1..3]

SeqsUpTo(S, m) == UNION {[1..k -> S] : k \in 0..m}

Counts == -1..(MaxLen + 1)

(***************************************************************************)
(* All.                                                                    *)
(***************************************************************************)
AllOnFalseContinue == "loop"

\* if !b { return false }
AllOnFalse == "done"

\* for b := range bs; return true once bs is exhausted
AllRange ==
    /\ op = "All" /\ pc \in {"start", "loop"}
    /\ Range(bs, "body", "done")
    /\ result' = IF pulled < Len(bs) THEN result ELSE <<TRUE>>
    /\ UNCHANGED <<cfgVars, out, stopped, stopAt, permVars, zipVars, locVars>>
    /\ UNCHANGED <<pCalls, values>>
    /\ UNCHANGED recVars

\* if !b { return false }
AllBody ==
    /\ op = "All" /\ pc = "body"
    /\ IF ~cur
       THEN /\ pc' = AllOnFalse
            /\ result' = <<FALSE>>
       ELSE /\ pc' = "loop"
            /\ UNCHANGED result
    /\ UNCHANGED <<cfgVars, out, stopped, stopAt, permVars, upVars, zipVars>>
    /\ UNCHANGED <<locVars, pCalls, values>>
    /\ UNCHANGED recVars

(***************************************************************************)
(* CollectErr.                                                             *)
(***************************************************************************)
\* the error values a pair can carry; "nil" is the nil error
Errs == {"nil", "e1", "e2"}

CollectErrOnErrorContinue == "loop"

\* if err != nil { return values, err }
CollectErrOnError == "done"

\* for a, err := range i; return values, nil once i is exhausted
CollectErrRange ==
    /\ op = "CollectErr" /\ pc \in {"start", "loop"}
    /\ Range(it, "body", "done")
    /\ result' = IF pulled < Len(it) THEN result ELSE <<values, "nil">>
    /\ UNCHANGED <<cfgVars, out, stopped, stopAt, permVars, zipVars, locVars>>
    /\ UNCHANGED <<pCalls, values>>
    /\ UNCHANGED recVars

\* if err != nil { return values, err }; values = append(values, a)
CollectErrBody ==
    /\ op = "CollectErr" /\ pc = "body"
    /\ IF cur[2] # "nil"
       THEN /\ pc' = CollectErrOnError
            /\ result' = <<values, cur[2]>>
            /\ UNCHANGED values
       ELSE /\ pc' = "loop"
            /\ values' = Append(values, cur[1])
            /\ UNCHANGED result
    /\ UNCHANGED <<cfgVars, out, stopped, stopAt, permVars, upVars, zipVars>>
    /\ UNCHANGED <<locVars, pCalls>>
    /\ UNCHANGED recVars

InitCommon ==
    /\ pc = "start"
    /\ out = <<>>
    /\ stopped = FALSE
    /\ stopAt = 0
    /\ bufs = <<>>
    /\ retained = <<>>
    /\ c = <<>>
    /\ i = 0
    /\ swaps = 0
    /\ pulled = 0
    /\ cur = 0
    /\ pulledA = 0
    /\ curA = 0
    /\ stopACalls = 0
    /\ endedBy = ""
    /\ pulledIn = 0
    /\ j = 0
    /\ batchLen = 0
    /\ pCalls = 0
    /\ result = <<>>
    /\ values = <<>>
    /\ recPc = "start"
    /\ recRet = <<>>
    /\ recStack = <<>>
    /\ recK = 0
    /\ recVal = TRUE
    /\ recOut = <<>>
    /\ recSwaps = 0

\* the arguments an operator does not take
NoPerm == input = <<>> /\ data = <<>> /\ recData = <<>> /\ sorts = FALSE
NoZip == as = <<>> /\ bs = <<>>
NoIt == it = <<>>
NoIts == its = <<>>
NoCount == n = 0
NoPred == pred = ""
NoVal == val = 0

InitPerm ==
    /\ op = "Perm"
    /\ input \in PermInputs
    /\ data = input
    /\ recData = input
    /\ sorts \in BOOLEAN
    /\ NoZip /\ NoIt /\ NoIts /\ NoCount /\ NoPred /\ NoVal

InitZip ==
    /\ op = "Zip"
    /\ as \in SeqsUpTo(Vals, MaxLen)
    /\ bs \in SeqsUpTo(Vals, MaxLen)
    /\ NoPerm /\ NoIt /\ NoIts /\ NoCount /\ NoPred /\ NoVal

InitTake ==
    /\ op = "Take"
    /\ it \in SeqsUpTo(Vals, MaxLen)
    /\ n \in Counts
    /\ NoPerm /\ NoZip /\ NoIts /\ NoPred /\ NoVal

\* the operators whose only argument is a sequence of single elements
InitOneSeq ==
    /\ op \in {"Enumerate", "Map", "Map1x2"}
    /\ it \in SeqsUpTo(Vals, MaxLen)
    /\ NoPerm /\ NoZip /\ NoIts /\ NoCount /\ NoPred /\ NoVal

\* the operators whose only argument is a sequence of pairs
InitOneSeq2 ==
    /\ op \in {"Map2x1", "Map2x2"}
    /\ it \in {Pairs(s) : s \in SeqsUpTo(Vals, MaxLen)}
    /\ NoPerm /\ NoZip /\ NoIts /\ NoCount /\ NoPred /\ NoVal

InitCounted ==
    /\ op \in {"Batch", "Limit"}
    /\ it \in SeqsUpTo(Vals, MaxLen)
    /\ n \in Counts
    /\ NoPerm /\ NoZip /\ NoIts /\ NoPred /\ NoVal

InitPredicated ==
    /\ op \in {"TakeWhile", "Filter"}
    /\ it \in SeqsUpTo(Vals, MaxLen)
    /\ pred \in Preds
    /\ NoPerm /\ NoZip /\ NoIts /\ NoCount /\ NoVal

\* values := []int{1, 2, 3, 4, 5} and its prefixes
SubSeqs == {[x \in 1..k |-> x] : k \in 0..MaxLen}

InitConcat ==
    /\ op = "Concat"
    /\ its \in SeqsUpTo(SubSeqs, MaxSubs)
    /\ NoPerm /\ NoZip /\ NoIt /\ NoCount /\ NoPred /\ NoVal

InitAll ==
    /\ op = "All"
    /\ as = <<>>
    /\ bs \in SeqsUpTo(BOOLEAN, MaxLen)
    /\ NoPerm /\ NoIt /\ NoIts /\ NoCount /\ NoPred /\ NoVal

\* a paired sequence: each pair carries a value and an error
InitCollectErr ==
    /\ op = "CollectErr"
    /\ it \in SeqsUpTo(Vals \X Errs, MaxLen)
    /\ NoPerm /\ NoZip /\ NoIts /\ NoCount /\ NoPred /\ NoVal

InitConst ==
    /\ op = "Const"
    /\ val \in Vals
    /\ NoPerm /\ NoZip /\ NoIt /\ NoIts /\ NoCount /\ NoPred

Init ==
    /\ InitCommon
    /\ \/ InitPerm
       \/ InitZip
       \/ InitTake
       \/ InitOneSeq
       \/ InitOneSeq2
       \/ InitCounted
       \/ InitPredicated
       \/ InitConcat
       \/ InitConst
       \/ InitAll
       \/ InitCollectErr

Next ==
    \/ PermStart
    \/ PermFirst
    \/ PermScan
    \/ PermYield
    \/ RecStart
    \/ RecSingle
    \/ RecCall
    \/ RecYield
    \/ RecReturn
    \/ ZipStart
    \/ ZipRange
    \/ ZipNext
    \/ ZipYield
    \/ ZipReturn
    \/ TakeRange
    \/ TakeBody
    \/ EnumerateRange
    \/ EnumerateBody
    \/ ConcatRange
    \/ ConcatInner
    \/ ConcatBody
    \/ BatchStart
    \/ BatchRange
    \/ BatchBody
    \/ BatchTail
    \/ LimitStart
    \/ LimitRange
    \/ LimitBody
    \/ MapRange
    \/ MapBody
    \/ Map1x2Range
    \/ Map1x2Body
    \/ Map2x1Range
    \/ Map2x1Body
    \/ Map2x2Range
    \/ Map2x2Body
    \/ ConstYield
    \/ TakeWhileRange
    \/ TakeWhileBody
    \/ FilterRange
    \/ FilterBody
    \/ AllRange
    \/ AllBody
    \/ CollectErrRange
    \/ CollectErrBody

Spec == Init /\ [][Next]_vars

FairSpec == Init /\ [][Next]_vars /\ WF_vars(Next)

(***************************************************************************)
(* Properties of Perm.                                                     *)
(***************************************************************************)
Distinct(s) == \A a, b \in DOMAIN s : s[a] = s[b] => a = b

Count(s, v) == Cardinality({k \in DOMAIN s : s[k] = v})

IsRearrangement(s, t) ==
    /\ Len(s) = Len(t)
    /\ \A k \in DOMAIN t : Count(s, t[k]) = Count(t, t[k])

DiffPos(s, t) == {k \in DOMAIN s : s[k] # t[k]}

Exchanged(s, t) ==
    /\ Len(s) = Len(t)
    /\ \E a, b \in DOMAIN s :
          /\ a # b
          /\ DiffPos(s, t) = {a, b}
          /\ t[a] = s[b]
          /\ t[b] = s[a]

PermRanToEnd == op = "Perm" /\ pc = "done" /\ ~stopped

\* C1: for an input of n pairwise-distinct elements, no two deliveries of a
\* run of Perm are equal, every delivery is a rearrangement of the input, and
\* a run consumed to completion makes n! deliveries (none for n = 0).
PermDeliversAllOrderings ==
    (op = "Perm" /\ Distinct(input)) =>
        /\ Distinct(out)
        /\ \A k \in DOMAIN out : IsRearrangement(out[k], input)
        /\ PermRanToEnd =>
              Len(out) = IF Len(input) = 0 THEN 0 ELSE Fact(Len(input))

PermDeliversAllOrderingsWitness ==
    /\ PermRanToEnd
    /\ Len(input) = MaxPerm
    /\ Distinct(input)
    /\ Len(out) = Fact(MaxPerm)

Expected3(x, y, z) ==
    << <<x, y, z>>, <<y, x, z>>, <<z, x, y>>,
       <<x, z, y>>, <<y, z, x>>, <<z, y, x>> >>

\* C2: for a three-element input [x, y, z] Perm delivers [x,y,z], [y,x,z],
\* [z,x,y], [x,z,y], [y,z,x], [z,y,x] in this order, the first delivery being
\* the input unchanged.
PermOrderOfThree ==
    (op = "Perm" /\ Len(input) = 3) =>
        LET want == Expected3(input[1], input[2], input[3])
        IN  /\ Len(out) <= Len(want)
            /\ \A k \in DOMAIN out : out[k] = want[k]
            /\ PermRanToEnd => Len(out) = Len(want)

PermOrderOfThreeWitness ==
    /\ PermRanToEnd
    /\ input = <<1, 2, 3>>
    /\ out = << <<1, 2, 3>>, <<2, 1, 3>>, <<3, 1, 2>>,
                <<1, 3, 2>>, <<2, 3, 1>>, <<3, 2, 1>> >>

\* C3: exactly one swap of two positions of the working slice happens between
\* two successive deliveries of Perm; for distinct elements each delivery
\* after the first is the previous one with the values of exactly two
\* positions exchanged.
PermOneSwapPerDelivery ==
    op = "Perm" =>
        /\ swaps = IF pc = "yield" THEN Len(out)
                   ELSE IF Len(out) = 0 THEN 0 ELSE Len(out) - 1
        /\ Distinct(input) =>
              \A k \in DOMAIN out : k > 1 => Exchanged(out[k - 1], out[k])

PermOneSwapPerDeliveryWitness ==
    /\ op = "Perm"
    /\ Distinct(input)
    /\ Len(input) = MaxPerm
    /\ Len(out) = Fact(MaxPerm)
    /\ swaps = Fact(MaxPerm) - 1

\* C4: when the consumer declines to continue at the k-th delivery of Perm,
\* the iteration returns: no delivery and no swap follows, and the working
\* slice is left equal to the k-th delivered ordering.
PermStopIsImmediate ==
    (op = "Perm" /\ stopped) =>
        /\ pc = "done"
        /\ Len(out) = stopAt
        /\ swaps = stopAt - 1
        /\ data = out[stopAt]

PermStopIsImmediateWitness ==
    /\ op = "Perm"
    /\ stopped
    /\ Len(input) = 3
    /\ stopAt = 4
    /\ data # input

PermInBounds ==
    op = "Perm" =>
        /\ pc # "panic"
        /\ (pc = "loop" /\ i < Len(data)) =>
              /\ i >= 0
              /\ i < Len(c)
              /\ 0 <= c[i + 1]
              /\ c[i + 1] <= i

\* C5: for every input length (0 and 1 included) and a consumer that always
\* continues, the scan of Perm ends with the scan index past the last
\* position, and no read of c[i] or swap is out of bounds:
\* 0 <= c[i] <= i < n at every read.
PermTerminatesInBounds ==
    /\ []PermInBounds
    /\ (op = "Perm") => ([](~stopped) => <>(pc = "done" /\ i >= Len(data)))

PermTerminatesInBoundsWitness ==
    /\ PermRanToEnd
    /\ Len(input) = MaxPerm
    /\ i = Len(data)
    /\ c = Zeros(MaxPerm)

\* C6: every delivery of a run of Perm is a view of one reused buffer: after
\* the run every slice a consumer retained without copying holds the same
\* values, the final delivered ordering.
PermDeliveriesShareBuffer ==
    (op = "Perm" /\ pc = "done") =>
        \A k \in DOMAIN retained :
            /\ retained[k] = retained[Len(retained)]
            /\ bufs[retained[k]] = bufs[retained[Len(retained)]]
            /\ ~sorts => bufs[retained[k]] = out[Len(out)]

PermDeliveriesShareBufferWitness ==
    /\ op = "Perm"
    /\ pc = "done"
    /\ ~sorts
    /\ Len(retained) = 3
    /\ out[1] # out[3]
    /\ bufs[retained[1]] = out[3]

(***************************************************************************)
(* Properties of Zip and Take.                                             *)
(***************************************************************************)
RanToEnd == pc = "done" /\ ~stopped

\* C7: Zip(A, B) over sequences of length p and q consumed to completion
\* makes exactly min(p, q) deliveries, the k-th being the pair (A[k], B[k]);
\* it stops as soon as either input is exhausted.
ZipPairsInLockstep ==
    op = "Zip" =>
        /\ Len(out) <= Min(Len(as), Len(bs))
        /\ \A k \in DOMAIN out : out[k] = <<as[k], bs[k]>>
        /\ RanToEnd => Len(out) = Min(Len(as), Len(bs))

ZipPairsInLockstepWitness ==
    /\ op = "Zip"
    /\ RanToEnd
    /\ Len(as) = 2
    /\ Len(bs) = MaxLen
    /\ as[1] # bs[1]
    /\ Len(out) = 2

\* C8: in every run of Zip the pull adapter over A is released exactly once
\* (stopA runs once), whichever way the run ends: B exhausted, A exhausted or
\* the consumer declining; nothing is asked of A after the release.
ZipReleasesAOnce ==
    op = "Zip" =>
        /\ stopACalls <= 1
        /\ pc = "done" => (stopACalls = 1 /\ endedBy \in {"A", "B", "consumer"})
        /\ stopACalls = 1 => pc = "done"

ZipReleasesAOnceWitness ==
    /\ op = "Zip"
    /\ pc = "done"
    /\ endedBy = "consumer"
    /\ stopACalls = 1
    /\ pulledA < Len(as)

Max(a, b) == IF a > b THEN a ELSE b

\* C10: Take(seq, n) never looks ahead: it demands from seq no more elements
\* than it delivers, so at most max(n, 0) elements of seq are ever demanded.
TakeNeverLooksAhead ==
    op = "Take" =>
        /\ pulled <= Max(n, 0)
        /\ pc = "done" => pulled <= Len(out)

\* C9: stop is irrevocable for every operator: once the consumer's callback
\* has returned false, the operator never invokes the callback again in that
\* run and demands no further element from any of its upstream sequences.
StopIsIrrevocable ==
    [][stopped =>
          /\ out' = out
          /\ pulled' = pulled
          /\ pulledA' = pulledA
          /\ pulledIn' = pulledIn]_vars

StopIsIrrevocableWitness ==
    /\ op = "Batch"
    /\ stopped
    /\ pc = "done"
    /\ batchLen = n
    /\ Len(out) = 2
    /\ pulled < Len(it)

(***************************************************************************)
(* Properties of Concat.                                                   *)
(***************************************************************************)
RECURSIVE Flatten(_)
Flatten(ss) == IF ss = <<>> THEN <<>> ELSE Head(ss) \o Flatten(Tail(ss))

IsPrefix(s, t) == Len(s) <= Len(t) /\ s = SubSeq(t, 1, Len(s))

RECURSIVE SumLen(_, _)
SumLen(ss, k) == IF k <= 0 THEN 0 ELSE Len(ss[k]) + SumLen(ss, k - 1)

\* C11: Concat (Chain over a fixed list) consumed to completion delivers all
\* elements of the first sub-sequence in order, then all of the second, and
\* so on; m copies of a sequence of length L give exactly m*L elements.
ConcatDeliversInOrder ==
    op = "Concat" =>
        /\ IsPrefix(out, Flatten(its))
        /\ RanToEnd =>
              /\ out = Flatten(its)
              /\ (\A k \in DOMAIN its : its[k] = its[1]) =>
                    Len(out) = Len(its) * (IF its = <<>> THEN 0 ELSE Len(its[1]))

ConcatDeliversInOrderWitness ==
    /\ op = "Concat"
    /\ RanToEnd
    /\ Len(its) = MaxSubs
    /\ \A k \in DOMAIN its : its[k] = its[1]
    /\ Len(its[1]) = 2
    /\ Len(out) = MaxSubs * 2

\* C12: when the consumer declines while Concat delivers an element of
\* sub-sequence j, the concatenation ends at once: no later element of j is
\* demanded or delivered, no later sub-sequence is started and the outer
\* sequence is not asked for another one.
ConcatStopsAtOnce ==
    (op = "Concat" /\ stopped) =>
        /\ pc = "done"
        /\ Len(out) = stopAt
        /\ pulledIn >= 1
        /\ stopAt = SumLen(its, pulled - 1) + pulledIn

ConcatStopsAtOnceWitness ==
    /\ op = "Concat"
    /\ stopped
    /\ Len(its) = MaxSubs
    /\ pulled = 2
    /\ pulledIn = 1
    /\ Len(its[2]) > 1
    /\ Len(its[3]) > 0

(***************************************************************************)
(* Properties of Take, Limit and Batch.                                    *)
(***************************************************************************)
\* the number of elements a bound of m lets through of a sequence s
Bounded(s, m) == Max(0, Min(m, Len(s)))

\* C13: for every integer n and finite seq, Take(seq, n) consumed to
\* completion delivers exactly the first min(n, length(seq)) elements of seq
\* in order, and nothing when n <= 0.
TakeDeliversPrefix ==
    op = "Take" =>
        /\ IsPrefix(out, SubSeq(it, 1, Bounded(it, n)))
        /\ RanToEnd => out = SubSeq(it, 1, Bounded(it, n))

TakeDeliversPrefixWitness ==
    /\ op = "Take"
    /\ RanToEnd
    /\ Len(it) = MaxLen
    /\ n = 2
    /\ out = SubSeq(it, 1, 2)

\* C14: for every integer n, Limit(seq, n) delivers at most the first n
\* elements of seq and then stops: exactly the first min(n, length(seq))
\* when n > 0 and nothing when n <= 0.
LimitDeliversPrefix ==
    op = "Limit" =>
        /\ IsPrefix(out, SubSeq(it, 1, Bounded(it, n)))
        /\ RanToEnd => out = SubSeq(it, 1, Bounded(it, n))

CeilDiv(a, b) == (a + b - 1) \div b

\* C15: for a finite input of length L and batch size n > 0, Batch consumed
\* to completion delivers exactly ceil(L/n) batches, each of size n except
\* possibly the last, which is not empty, and the batches as copied at their
\* delivery concatenate to the input; for n = 0 it delivers no batch.
BatchSplitsInput ==
    (op = "Batch" /\ n >= 0) =>
        /\ n = 0 => out = <<>>
        /\ IsPrefix(Flatten(out), it)
        /\ \A k \in DOMAIN out :
              /\ Len(out[k]) >= 1
              /\ Len(out[k]) <= n
              /\ k < Len(out) => Len(out[k]) = n
        /\ (RanToEnd /\ n > 0) =>
              /\ Flatten(out) = it
              /\ Len(out) = CeilDiv(Len(it), n)

BatchSplitsInputWitness ==
    /\ op = "Batch"
    /\ RanToEnd
    /\ n = 2
    /\ Len(it) = MaxLen
    /\ Len(out) = CeilDiv(MaxLen, 2)
    /\ Len(out[Len(out)]) = MaxLen - 2 * (Len(out) - 1)

\* C16: a negative batch size is not an error: iterating Batch(seq, n) with
\* n < 0 delivers nothing and never reaches a failure (panic) state.
BatchNegativeYieldsNothing ==
    (op = "Batch" /\ n < 0) =>
        /\ pc # "panic"
        /\ out = <<>>

\* the values a retained batch shows: its view of the array behind it
View(r) == SubSeq(bufs[r.slot], 1, r.len)

BatchRunOver == op = "Batch" /\ pc = "done" /\ out # <<>>

Satisfying(s) == LET Holds(x) == P(pred, x) IN SelectSeq(s, Holds)

\* the elements of the upstream whose loop body has run to its end
Processed == SubSeq(it, 1, IF pc = "body" THEN pulled - 1 ELSE pulled)

\* C18: Filter(seq, p) consumed to completion delivers exactly the
\* subsequence of the elements of seq for which p holds, in order (all of
\* seq for an always-true p, nothing for an always-false p), and p is
\* evaluated exactly once for each element demanded from seq.
FilterDeliversSatisfying ==
    op = "Filter" =>
        /\ out = Satisfying(Processed)
        /\ pCalls = Len(Processed)
        /\ RanToEnd =>
              /\ out = Satisfying(it)
              /\ pCalls = Len(it)
              /\ pred = "all" => out = it
              /\ pred = ">4" => out = <<>>

FilterDeliversSatisfyingWitness ==
    /\ op = "Filter"
    /\ RanToEnd
    /\ pred = "odd"
    /\ it = <<1, 2, 1>>
    /\ out = <<1, 1>>
    /\ pCalls = 3

\* the length of the longest prefix of s whose elements all satisfy the
\* predicate
RECURSIVE LongestPrefix(_)
LongestPrefix(s) ==
    IF s = <<>> \/ ~P(pred, Head(s)) THEN 0 ELSE 1 + LongestPrefix(Tail(s))

\* C19: TakeWhile(seq, p) delivers exactly the longest prefix of seq whose
\* elements all satisfy p: it stops at the first element for which p fails,
\* does not deliver it and demands no element of seq after it.
TakeWhileDeliversPrefix ==
    op = "TakeWhile" =>
        /\ IsPrefix(out, SubSeq(it, 1, LongestPrefix(it)))
        /\ pulled <= Min(Len(it), LongestPrefix(it) + 1)
        /\ RanToEnd => out = SubSeq(it, 1, LongestPrefix(it))

TakeWhileDeliversPrefixWitness ==
    /\ op = "TakeWhile"
    /\ RanToEnd
    /\ pred = "odd"
    /\ it = <<1, 2, 1>>
    /\ out = <<1>>
    /\ pulled = 2

(***************************************************************************)
(* Properties of All.                                                      *)
(***************************************************************************)
\* the number of elements of s up to and including its first false one, all
\* of s when it has none
RECURSIVE UpToFirstFalse(_)
UpToFirstFalse(s) ==
    IF s = <<>> THEN 0
    ELSE IF ~Head(s) THEN 1
    ELSE 1 + UpToFirstFalse(Tail(s))

\* C20: All(bs) returns true exactly when every element of bs is true (true
\* for the empty sequence); when bs has a false element All returns false
\* upon the first one and demands no element of bs after it.
AllReturnsConjunction ==
    op = "All" =>
        /\ pulled <= UpToFirstFalse(bs)
        /\ pc # "done" => result = <<>>
        /\ pc = "done" =>
              /\ result = <<\A k \in DOMAIN bs : bs[k]>>
              /\ pulled = UpToFirstFalse(bs)

AllReturnsConjunctionWitness ==
    /\ op = "All"
    /\ pc = "done"
    /\ bs = <<TRUE, FALSE, TRUE>>
    /\ result = <<FALSE>>
    /\ pulled = 2

(***************************************************************************)
(* Properties of CollectErr.                                               *)
(***************************************************************************)
\* the number of pairs of s up to and including the first one that carries
\* an error, all of s when none does
RECURSIVE UpToFirstErr(_)
UpToFirstErr(s) ==
    IF s = <<>> THEN 0
    ELSE IF Head(s)[2] # "nil" THEN 1
    ELSE 1 + UpToFirstErr(Tail(s))

HasErr(s) == \E k \in DOMAIN s : s[k][2] # "nil"

\* the values of the first m pairs of s
ValuesOf(s, m) == [k \in 1..m |-> s[k][1]]

\* C21: CollectErr over a paired sequence returns, when some pair carries
\* a non-nil error, the values of exactly the pairs strictly before the
\* first such pair, in order, together with that first error; it discards
\* the value paired with the error and demands no pair after it. When no
\* pair carries an error it returns all values in order and a nil error.
CollectErrStopsAtFirstError ==
    op = "CollectErr" =>
        /\ pulled <= UpToFirstErr(it)
        /\ pc # "done" => result = <<>>
        /\ pc = "done" =>
              /\ pulled = UpToFirstErr(it)
              /\ IF HasErr(it)
                 THEN result = <<ValuesOf(it, UpToFirstErr(it) - 1),
                                 it[UpToFirstErr(it)][2]>>
                 ELSE result = <<ValuesOf(it, Len(it)), "nil">>

CollectErrStopsAtFirstErrorWitness ==
    /\ op = "CollectErr"
    /\ pc = "done"
    /\ it = <<<<1, "nil">>, <<2, "e1">>, <<1, "e2">>>>
    /\ result = <<<<1>>, "e1">>
    /\ pulled = 2

(***************************************************************************)
(* permIter against permRec.                                               *)
(***************************************************************************)
RecOver == op = "Perm" /\ recPc = "done"

\* C22: permIter and permRec use the identical swap schedule: for every
\* input and every consumer stop point both make the same number of
\* deliveries with the same contents in the same order, after the same
\* number of exchanges, and leave the input slice in the same final state.
PermRecMatchesPermIter ==
    op = "Perm" =>
        /\ IsPrefix(recOut, out)
        /\ recSwaps <= swaps
        /\ RecOver =>
              /\ recOut = out
              /\ recData = data
              /\ recSwaps = swaps

PermRecMatchesPermIterWitness ==
    /\ RecOver
    /\ input = <<0, 1, 2, 3>>
    /\ stopped /\ stopAt = 10
    /\ Len(recOut) = 10
    /\ recSwaps = 9

(***************************************************************************)
(* The demands Zip makes of its two inputs.                                *)
(***************************************************************************)
\* C23: Zip consumes its inputs asymmetrically: at every point of a run the
\* number of elements demanded from A is at most the number demanded from
\* B; when the run ends because B is exhausted, no element of A beyond the
\* last delivered pair has been consumed; when it ends because A is
\* exhausted while B still has elements, exactly one element of B beyond
\* the last delivered pair has been consumed and dropped.
ZipDemandsBFirst ==
    op = "Zip" =>
        /\ pulledA <= pulled
        /\ pulled <= pulledA + 1
        /\ endedBy = "B" =>
              /\ pulled = Len(bs)
              /\ pulledA = Len(out)
        /\ endedBy = "A" =>
              /\ pulledA = Len(as)
              /\ pulledA = Len(out)
              /\ pulled = Len(out) + 1
              /\ cur = bs[Len(out) + 1]

ZipDemandsBFirstWitness ==
    /\ op = "Zip"
    /\ pc = "done"
    /\ endedBy = "A"
    /\ Len(as) = 1
    /\ Len(bs) = MaxLen
    /\ Len(out) = 1
    /\ pulled = 2

(***************************************************************************)
(* The output buffer of Perm against the consumer's writes.                *)
(***************************************************************************)
\* C24: the slice Perm delivers is an output buffer separate from the
\* working slice and is refilled from it before every delivery: whatever
\* the consumer writes into the delivered slice between deliveries (sorting
\* it in place) changes neither the working slice nor the content or number
\* of any later delivery.  Every delivery shows the working slice as it is
\* at that moment and leaves it as it is, the working slice changes only by
\* the exchange of the scan loop, and a completed run makes n! deliveries.
PermBufferIsSeparate ==
    /\ [](PermRanToEnd /\ input # <<>> => Len(out) = Fact(Len(input)))
    /\ [][op = "Perm" /\ Len(out') = Len(out) + 1 =>
             /\ out'[Len(out')] = data
             /\ data' = data
             /\ bufs'[1] = Consumer(data)]_vars
    /\ [][op = "Perm" /\ data' # data =>
             /\ pc = "loop"
             /\ data' = PermSwap(data, c, i)
             /\ out' = out]_vars

\* the consumer has sorted the buffer in place after a delivery that was
\* not in order, and deliveries went on from the working slice
PermBufferIsSeparateWitness ==
    /\ PermRanToEnd
    /\ sorts
    /\ input = <<0, 1, 2>>
    /\ bufs[1] = <<0, 1, 2>>
    /\ data = <<2, 1, 0>>
    /\ out[Len(out)] = <<2, 1, 0>>
    /\ Len(out) = 6

====
